---- MODULE Spec2Model ----
(***************************************************************************)
(* Model of loop_coalesce.cpp: main builds two 4x4 matrices, calls         *)
(* MatrixMultiply<1> and MatrixMultiply<2>, and validates both outputs.    *)
(* Each call creates a queue, wraps the three vectors in buffers, submits  *)
(* one single_task kernel (load nest, multiply nest, store nest) and       *)
(* leaves the try scope, where the buffers are destroyed.                  *)
(*                                                                         *)
(* Matrix entries are integers: every value the model feeds the kernel is  *)
(* a small integer, on which float arithmetic is exact.                    *)
(***************************************************************************)
EXTENDS Integers, Sequences, FiniteSets, TLC

VARIABLES
  pc,                   \* main's position: init, calls, check, report, done, terminated
  mi, mj,               \* main's loop counters i and j (init loop, check loop)
  matrix_a, matrix_b,   \* main's input vectors
  matrix_output_no_col, \* main's result vector for MatrixMultiply<1>
  matrix_output,        \* main's result vector for MatrixMultiply<2>
  passed,               \* main's flag
  console,              \* the verdict lines main has printed
  exit_code,            \* <<>> while main runs, <<r>> once it returned r
  cpc,                  \* per call: notcalled, queued, buffered, submitted, returned
  buffer_in_a, buffer_in_b, buffer_out,  \* per call: the buffers' contents
  kpc,                  \* per call: the kernel's phase: none, load, mult, store, done
  idx,                  \* per call: the kernel's running linear index
  a, b, tmp,            \* per call: the kernel's working arrays
  loop,                 \* per call: the counters of the nest being executed
  visited               \* per call: the (i, j) pairs the multiply nest assigned, in order

vars == <<pc, mi, mj, matrix_a, matrix_b, matrix_output_no_col, matrix_output,
          passed, console, exit_code, cpc, buffer_in_a, buffer_in_b, buffer_out,
          kpc, idx, a, b, tmp, loop, visited>>

mainVars == <<pc, mi, mj, matrix_a, matrix_b, matrix_output_no_col, matrix_output,
              passed, console, exit_code>>

hostVectors == <<matrix_a, matrix_b, matrix_output_no_col, matrix_output>>

bufferVars == <<buffer_in_a, buffer_in_b, buffer_out>>

kernelVars == <<kpc, idx, a, b, tmp, loop, visited>>

----------------------------------------------------------------------------
(* Program constants *)

kNumRows == 4

kNumCols == 4

kNumElements == kNumRows * kNumCols

\* The two instantiations main makes: coalesce_factor 1 and coalesce_factor 2.
Factors == {1, 2}

Rows == 0 .. (kNumRows - 1)

Cols == 0 .. (kNumCols - 1)

Elems == 0 .. (kNumElements - 1)

\* Content of a float array element that was declared and never assigned.
Uninit == -7777

\* Content of an element of a no_init device buffer that the host data did not fill.
Stale == -9999

(* Bounds of the model *)

\* Largest magnitude of the entries of the generated input matrices.
MaxVal == 2

\* Number of generated dense input matrices.
NumDense == 2

----------------------------------------------------------------------------
(* Vectors and the inputs *)

\* std::vector<float>(kNumElements): value-initialised, all 0.
ZeroVec == [p \in Elems |-> 0]

\* What main's init loop builds in matrix_a: the identity.
Identity == [p \in Elems |-> IF p \div kNumCols = p % kNumCols THEN 1 ELSE 0]

BValue_noOffset(i, j) == i * j

\* The value main stores at matrix_b[pos + j].
BValue(i, j) == i * j + 1

BMain == [p \in Elems |-> BValue(p \div kNumCols, p % kNumCols)]

\* A matrix with one non-zero entry.
Unit(q, v) == [p \in Elems |-> IF p = q THEN v ELSE 0]

\* A dense matrix with entries in -MaxVal .. MaxVal, different for each s.
Dense(s) == [p \in Elems |-> ((p * (s + 1) + (p \div kNumCols) * s) % (2 * MaxVal + 1)) - MaxVal]

\* The matrices MatrixMultiply is applied to.
Matrices ==
  {Identity, BMain}
    \cup {Unit(q, v) : q \in Elems, v \in 1 .. MaxVal}
    \cup {Dense(s) : s \in 1 .. NumDense}

\* The inputs of the runs whose kernels interleave.
ConcInputs == {<<Identity, BMain>>, <<BMain, Dense(1)>>, <<Dense(1), Dense(2)>>}

\* float x[kNumRows][kNumCols], declared and not initialised.
UninitArr == [i \in Rows |-> [j \in Cols |-> Uninit]]

StaleVec == [p \in Elems |-> Stale]

----------------------------------------------------------------------------
(* The loop nests *)

\* The counters of a nest: c is the merged counter (used when the nest is
\* coalesced), i and j the row and column the body works on.
LoopStart == [c |-> 0, i |-> 0, j |-> 0]

\* loop_coalesce(f) merges the outer f levels: with f = 1 nothing is merged,
\* with f = 2 the i and j levels become one counter.
Merged(f) == f >= 2

\* ++j; on j = kNumCols leave the inner loop, ++i and re-enter with j = 0.
NestedNext(l) ==
  IF l.j + 1 < kNumCols
    THEN [l EXCEPT !.j = l.j + 1]
    ELSE [l EXCEPT !.i = l.i + 1, !.j = 0]

\* i < kNumRows fails.
NestedDone(l) == ~(l.i < kNumRows)

CoalescedI_swapped(c) == c % kNumCols

\* Row recovered from the merged counter.
CoalescedI(c) == c \div kNumCols

\* Column recovered from the merged counter.
CoalescedJ(c) == c % kNumCols

\* ++c on the merged counter over [0, kNumRows * kNumCols).
CoalescedNext(l) ==
  [c |-> l.c + 1, i |-> CoalescedI(l.c + 1), j |-> CoalescedJ(l.c + 1)]

CoalescedDone_short(l) == ~(l.c < kNumRows * kNumCols - 1)

CoalescedDone(l) == ~(l.c < kNumRows * kNumCols)

Advance(f, l) == IF Merged(f) THEN CoalescedNext(l) ELSE NestedNext(l)

NestDone(f, l) == IF Merged(f) THEN CoalescedDone(l) ELSE NestedDone(l)

RECURSIVE Dot_transposed(_, _, _, _, _, _)
Dot_transposed(A, B, i, j, k, sum) ==
  IF k < kNumCols
    THEN Dot_transposed(A, B, i, j, k + 1, sum + A[i][k] * B[j][k])
    ELSE sum

\* The reduction loop: for (k = 0; k < kNumCols; ++k) sum += a[i][k] * b[k][j].
RECURSIVE Dot(_, _, _, _, _, _)
Dot(A, B, i, j, k, sum) ==
  IF k < kNumCols
    THEN Dot(A, B, i, j, k + 1, sum + A[i][k] * B[k][j])
    ELSE sum

----------------------------------------------------------------------------
(* main: building the inputs *)

\* One iteration of the inner loop of main's init nest; the iteration with
\* j = 0 also carries the statements of the outer body that precede the loop.
InitStep ==
  /\ pc = "init"
  /\ LET pos == mi * kNumCols
         diag == IF mj = 0 THEN [matrix_a EXCEPT ![mi + pos] = 1] ELSE matrix_a
         last == (mi = kNumRows - 1) /\ (mj = kNumCols - 1)
     IN  /\ matrix_a' = diag
         /\ matrix_b' = [matrix_b EXCEPT ![pos + mj] = BValue(mi, mj)]
         /\ mj' = IF mj + 1 < kNumCols THEN mj + 1 ELSE 0
         /\ mi' = IF last THEN 0 ELSE IF mj + 1 < kNumCols THEN mi ELSE mi + 1
         /\ pc' = IF last THEN "calls" ELSE "init"
  /\ UNCHANGED <<matrix_output_no_col, matrix_output, passed, console, exit_code>>
  /\ UNCHANGED <<cpc, bufferVars, kernelVars>>

----------------------------------------------------------------------------
(* MatrixMultiply<f> *)

\* std::terminate has not been called.
Alive == pc # "terminated"

\* main calls MatrixMultiply<1> first and MatrixMultiply<2> after it returned.
InOrder(f) == f = 1 \/ cpc[1] = "returned"

\* Entering MatrixMultiply<f>: the queue is constructed.
Enter(f) ==
  /\ pc = "calls"
  /\ cpc[f] = "notcalled"
  /\ cpc' = [cpc EXCEPT ![f] = "queued"]
  /\ UNCHANGED <<mainVars, bufferVars, kernelVars>>

Call(f) == InOrder(f) /\ Enter(f)

\* The queue constructor throws (no device): the catch block reports and
\* calls std::terminate.
EnterFails(f) ==
  /\ pc = "calls"
  /\ cpc[f] = "notcalled"
  /\ pc' = "terminated"
  /\ UNCHANGED <<mi, mj, hostVectors, passed, console, exit_code>>
  /\ UNCHANGED <<cpc, bufferVars, kernelVars>>

CallFails(f) == InOrder(f) /\ EnterFails(f)

ResArg_aliased(f) == 2

\* The vector main passes as res: 1 is matrix_output_no_col, 2 is matrix_output.
ResArg(f) == f

HostRes(f) == IF ResArg(f) = 1 THEN matrix_output_no_col ELSE matrix_output

\* buffer buffer_in_a(matrix_a); buffer buffer_in_b(matrix_b); buffer buffer_out(res);
MakeBuffers(f) ==
  /\ Alive
  /\ cpc[f] = "queued"
  /\ buffer_in_a' = [buffer_in_a EXCEPT ![f] = matrix_a]
  /\ buffer_in_b' = [buffer_in_b EXCEPT ![f] = matrix_b]
  /\ buffer_out' = [buffer_out EXCEPT ![f] = HostRes(f)]
  /\ cpc' = [cpc EXCEPT ![f] = "buffered"]
  /\ UNCHANGED <<mainVars, kernelVars>>

\* q.submit: the command group takes the accessors and the kernel starts.
\* accessor_res is write_only with no_init: what the device buffer holds at
\* start is unspecified (the host data, or anything else).
Submit(f) ==
  /\ Alive
  /\ cpc[f] = "buffered"
  /\ \E junk \in {buffer_out[f], StaleVec} :
       buffer_out' = [buffer_out EXCEPT ![f] = junk]
  /\ cpc' = [cpc EXCEPT ![f] = "submitted"]
  /\ kpc' = [kpc EXCEPT ![f] = "load"]
  /\ idx' = [idx EXCEPT ![f] = 0]
  /\ a' = [a EXCEPT ![f] = UninitArr]
  /\ b' = [b EXCEPT ![f] = UninitArr]
  /\ tmp' = [tmp EXCEPT ![f] = UninitArr]
  /\ loop' = [loop EXCEPT ![f] = LoopStart]
  /\ visited' = [visited EXCEPT ![f] = <<>>]
  /\ UNCHANGED <<mainVars, buffer_in_a, buffer_in_b>>

LoadStep_writes(f) ==
  /\ Alive
  /\ kpc[f] = "load"
  /\ LET i == loop[f].i
         j == loop[f].j
         nxt == Advance(f, loop[f])
     IN  /\ buffer_in_a' = [buffer_in_a EXCEPT ![f][idx[f]] = a[f][i][j]]
         /\ buffer_in_b' = [buffer_in_b EXCEPT ![f][idx[f]] = b[f][i][j]]
         /\ tmp' = [tmp EXCEPT ![f][i][j] = 0]
         /\ idx' = [idx EXCEPT ![f] = idx[f] + 1]
         /\ IF NestDone(f, nxt)
              THEN /\ kpc' = [kpc EXCEPT ![f] = "mult"]
                   /\ loop' = [loop EXCEPT ![f] = LoopStart]
              ELSE /\ kpc' = kpc
                   /\ loop' = [loop EXCEPT ![f] = nxt]
  /\ UNCHANGED <<mainVars, cpc, a, b, buffer_out, visited>>

\* One iteration of the body of the load nest.
LoadStep(f) ==
  /\ Alive
  /\ kpc[f] = "load"
  /\ LET i == loop[f].i
         j == loop[f].j
         nxt == Advance(f, loop[f])
     IN  /\ a' = [a EXCEPT ![f][i][j] = buffer_in_a[f][idx[f]]]
         /\ b' = [b EXCEPT ![f][i][j] = buffer_in_b[f][idx[f]]]
         /\ tmp' = [tmp EXCEPT ![f][i][j] = 0]
         /\ idx' = [idx EXCEPT ![f] = idx[f] + 1]
         /\ IF NestDone(f, nxt)
              THEN /\ kpc' = [kpc EXCEPT ![f] = "mult"]
                   /\ loop' = [loop EXCEPT ![f] = LoopStart]
              ELSE /\ kpc' = kpc
                   /\ loop' = [loop EXCEPT ![f] = nxt]
  /\ UNCHANGED <<mainVars, cpc, bufferVars, visited>>

IdxAtStore_kept(f) == idx[f]

\* idx = 0; between the multiply nest and the store nest.
IdxAtStore(f) == 0

\* One iteration of the (i, j) body of the multiply nest, its reduction loop
\* included; leaving the nest, idx is reset for the store nest.
MultStep(f) ==
  /\ Alive
  /\ kpc[f] = "mult"
  /\ LET i == loop[f].i
         j == loop[f].j
         nxt == Advance(f, loop[f])
     IN  /\ tmp' = [tmp EXCEPT ![f][i][j] = Dot(a[f], b[f], i, j, 0, 0)]
         /\ visited' = [visited EXCEPT ![f] = Append(visited[f], <<i, j>>)]
         /\ IF NestDone(f, nxt)
              THEN /\ kpc' = [kpc EXCEPT ![f] = "store"]
                   /\ loop' = [loop EXCEPT ![f] = LoopStart]
                   /\ idx' = [idx EXCEPT ![f] = IdxAtStore(f)]
              ELSE /\ kpc' = kpc
                   /\ loop' = [loop EXCEPT ![f] = nxt]
                   /\ idx' = idx
  /\ UNCHANGED <<mainVars, cpc, bufferVars, a, b>>

StoreIdxNext_stuck(x) == x

\* idx++ of the store nest.
StoreIdxNext(x) == x + 1

\* One iteration of the body of the store nest.
StoreStep(f) ==
  /\ Alive
  /\ kpc[f] = "store"
  /\ LET i == loop[f].i
         j == loop[f].j
         nxt == Advance(f, loop[f])
     IN  /\ buffer_out' = [buffer_out EXCEPT ![f][idx[f]] = tmp[f][i][j]]
         /\ idx' = [idx EXCEPT ![f] = StoreIdxNext(idx[f])]
         /\ IF NestDone(f, nxt)
              THEN /\ kpc' = [kpc EXCEPT ![f] = "done"]
                   /\ loop' = [loop EXCEPT ![f] = LoopStart]
              ELSE /\ kpc' = kpc
                   /\ loop' = [loop EXCEPT ![f] = nxt]
  /\ UNCHANGED <<mainVars, cpc, buffer_in_a, buffer_in_b, a, b, tmp, visited>>

KernelComplete_nowait(f) == TRUE

\* The destructor of a buffer blocks until the work submitted on it is complete.
KernelComplete(f) == kpc[f] = "done"

\* The end of the try scope: the buffers are destroyed (buffer_out copies
\* back into res) and MatrixMultiply<f> returns. After the second return
\* main declares passed = true and enters the check nest.
Return(f) ==
  /\ cpc[f] = "submitted"
  /\ KernelComplete(f)
  /\ pc = "calls"
  /\ cpc' = [cpc EXCEPT ![f] = "returned"]
  /\ matrix_output_no_col' =
       IF ResArg(f) = 1 THEN buffer_out[f] ELSE matrix_output_no_col
  /\ matrix_output' = IF ResArg(f) = 1 THEN matrix_output ELSE buffer_out[f]
  /\ IF \A g \in Factors \ {f} : cpc[g] = "returned"
       THEN /\ pc' = "check"
            /\ passed' = TRUE
       ELSE /\ pc' = pc
            /\ passed' = passed
  /\ UNCHANGED <<mi, mj, matrix_a, matrix_b, console, exit_code>>
  /\ UNCHANGED <<bufferVars, kernelVars>>

----------------------------------------------------------------------------
(* main: the correctness check *)

\* The value main expects at (i, j).
Expected(i, j) == i * j + 1

PassedAfter_overwritten(p, mismatch) == ~mismatch

\* if (mismatch) passed = false;
PassedAfter(p, mismatch) == IF mismatch THEN FALSE ELSE p

\* One iteration of the inner loop of the check nest.
CheckStep ==
  /\ pc = "check"
  /\ LET pos == mi * kNumCols
         val_noCol == matrix_output_no_col[pos + mj]
         val == matrix_output[pos + mj]
         mismatch == val_noCol # Expected(mi, mj) \/ val # Expected(mi, mj)
         last == (mi = kNumRows - 1) /\ (mj = kNumCols - 1)
     IN  /\ passed' = PassedAfter(passed, mismatch)
         /\ console' = IF mismatch
                         THEN Append(console, "FAILED: The results are incorrect")
                         ELSE console
         /\ mj' = IF mj + 1 < kNumCols THEN mj + 1 ELSE 0
         /\ mi' = IF last THEN 0 ELSE IF mj + 1 < kNumCols THEN mi ELSE mi + 1
         /\ pc' = IF last THEN "report" ELSE "check"
  /\ UNCHANGED <<hostVectors, exit_code>>
  /\ UNCHANGED <<cpc, bufferVars, kernelVars>>

\* if (passed) { print PASSED; return 0; } else { print FAILED; return -1; }
Report ==
  /\ pc = "report"
  /\ console' = Append(console, IF passed THEN "PASSED: The results are correct"
                                          ELSE "FAILED")
  /\ exit_code' = IF passed THEN <<0>> ELSE <<-1>>
  /\ pc' = "done"
  /\ UNCHANGED <<mi, mj, hostVectors, passed>>
  /\ UNCHANGED <<cpc, bufferVars, kernelVars>>

----------------------------------------------------------------------------
(* Specifications *)

\* No call made yet: no buffer, no kernel.
InitCalls ==
  /\ cpc = [f \in Factors |-> "notcalled"]
  /\ buffer_in_a = [f \in Factors |-> ZeroVec]
  /\ buffer_in_b = [f \in Factors |-> ZeroVec]
  /\ buffer_out = [f \in Factors |-> ZeroVec]
  /\ kpc = [f \in Factors |-> "none"]
  /\ idx = [f \in Factors |-> 0]
  /\ a = [f \in Factors |-> UninitArr]
  /\ b = [f \in Factors |-> UninitArr]
  /\ tmp = [f \in Factors |-> UninitArr]
  /\ loop = [f \in Factors |-> LoopStart]
  /\ visited = [f \in Factors |-> <<>>]

InitHost ==
  /\ mi = 0
  /\ mj = 0
  /\ matrix_output_no_col = ZeroVec
  /\ matrix_output = ZeroVec
  /\ passed = TRUE
  /\ console = <<>>
  /\ exit_code = <<>>

\* main after the four vectors are constructed.
InitMain ==
  /\ pc = "init"
  /\ matrix_a = ZeroVec
  /\ matrix_b = ZeroVec
  /\ InitHost
  /\ InitCalls

\* main at its first call, the two input matrices drawn from Matrices.
Init ==
  /\ pc = "calls"
  /\ matrix_a \in Matrices
  /\ matrix_b \in Matrices
  /\ InitHost
  /\ InitCalls

\* main at its first call, on the inputs of the interleaved runs.
InitConc ==
  /\ pc = "calls"
  /\ \E in \in ConcInputs :
       /\ matrix_a = in[1]
       /\ matrix_b = in[2]
  /\ InitHost
  /\ InitCalls

KernelNext ==
  \E f \in Factors :
    \/ MakeBuffers(f)
    \/ Submit(f)
    \/ LoadStep(f)
    \/ MultStep(f)
    \/ StoreStep(f)
    \/ Return(f)

CheckNext == CheckStep \/ Report

Next ==
  \/ \E f \in Factors : Call(f) \/ CallFails(f)
  \/ KernelNext
  \/ CheckNext

NextMain == InitStep \/ Next

\* The two calls made in either order, their steps interleaved.
NextConc ==
  \/ \E f \in Factors : Enter(f) \/ EnterFails(f)
  \/ KernelNext
  \/ CheckNext

\* MatrixMultiply<1> and <2> on drawn inputs, then main's check.
Spec == Init /\ [][Next]_vars

\* The program as main runs it.
SpecMain == InitMain /\ [][NextMain]_vars

\* The two invocations overlapping.
SpecConc == InitConc /\ [][NextConc]_vars

----------------------------------------------------------------------------
(* Properties *)

\* The (i, j) entry of the product of the row-major matrices A and B.
RefProduct(A, B, i, j) ==
  A[i * 4 + 0] * B[0 * 4 + j] + A[i * 4 + 1] * B[1 * 4 + j]
    + A[i * 4 + 2] * B[2 * 4 + j] + A[i * 4 + 3] * B[3 * 4 + j]

\* The working array T laid out row-major.
Flat(T) == [p \in Elems |-> T[p \div 4][p % 4]]

\* C1: when the kernel of MatrixMultiply<k> has finished, for k = 1 and k = 2,
\* Result[i*4+j] is the sum over m in 0..3 of A[i*4+m] * B[m*4+j] at every (i, j).
C1_ProductCorrect ==
  \A f \in Factors :
    kpc[f] = "done" =>
      \A i \in Rows, j \in Cols :
        buffer_out[f][i * 4 + j] = RefProduct(matrix_a, matrix_b, i, j)

C1_Witness ==
  /\ kpc[1] = "done"
  /\ kpc[2] = "done"
  /\ matrix_a = Dense(1)
  /\ matrix_b = BMain
  /\ buffer_out[2][1 * 4 + 3] = -15
  /\ buffer_out[2][3 * 4 + 1] = 5

\* C2: on the same A and B the factor-2 kernel's output equals the factor-1
\* kernel's output element by element, in the buffers and in main's vectors.
C2_CoalescingKeepsResults ==
  /\ (kpc[1] = "done" /\ kpc[2] = "done") =>
       \A p \in Elems : buffer_out[2][p] = buffer_out[1][p]
  /\ (cpc[1] = "returned" /\ cpc[2] = "returned") =>
       \A p \in Elems : matrix_output[p] = matrix_output_no_col[p]

C2_Witness ==
  /\ cpc[1] = "returned"
  /\ cpc[2] = "returned"
  /\ matrix_a = Dense(1)
  /\ matrix_b = Dense(2)
  /\ \E p \in Elems : matrix_output[p] # 0

\* The counters of the unmerged i-outer/j-inner nest at its n-th iteration.
RECURSIVE NestedAt(_, _)
NestedAt(l, n) == IF n = 0 THEN l ELSE NestedAt(NestedNext(l), n - 1)

\* C3: the factor-2 multiply nest runs one counter c over [0, 16) and at step c
\* works on (c/4, c%4), the pair of the unmerged double loop's c-th iteration;
\* it assigns every pair of rows x cols exactly once, in the order of the
\* factor-1 nest.
C3_CoalescedOrder ==
  /\ kpc[2] = "mult" =>
       LET l == loop[2]
           n == NestedAt(LoopStart, l.c)
       IN  /\ l.c \in 0 .. 15
           /\ l.i = l.c \div 4
           /\ l.j = l.c % 4
           /\ <<l.i, l.j>> = <<n.i, n.j>>
           /\ Len(visited[2]) = l.c
           /\ \A m \in 1 .. l.c : visited[2][m] = visited[1][m]
  /\ kpc[2] \in {"store", "done"} =>
       /\ visited[2] = visited[1]
       /\ Len(visited[2]) = 16
       /\ \A i \in Rows, j \in Cols :
            Cardinality({m \in 1 .. 16 : visited[2][m] = <<i, j>>}) = 1
       /\ \A m \in 1 .. 16 : visited[2][m] = <<(m - 1) \div 4, (m - 1) % 4>>

C3_Witness ==
  /\ kpc[2] = "mult"
  /\ loop[2].c = 9
  /\ loop[2].i = 2
  /\ loop[2].j = 1
  /\ Len(visited[1]) = 16
  /\ visited[1][10] = <<2, 1>>

\* C4: from submission to completion of MatrixMultiply<k>, no step changes an
\* element of A or B: the input buffers and main's input vectors keep their
\* values.
C4_InputsNotMutated ==
  [][\A f \in Factors :
       cpc[f] = "submitted" =>
         /\ buffer_in_a'[f] = buffer_in_a[f]
         /\ buffer_in_b'[f] = buffer_in_b[f]
         /\ matrix_a' = matrix_a
         /\ matrix_b' = matrix_b]_vars

C4_Witness ==
  /\ cpc[2] = "submitted"
  /\ kpc[2] = "done"
  /\ matrix_a = Dense(1)
  /\ matrix_b = BMain
  /\ buffer_in_a[2] = Dense(1)
  /\ buffer_in_b[2] = BMain

\* C5: after the kernel completes the store nest has written each of the 16
\* output positions: the output is the working result at every position and no
\* element of what the buffer held at submission is left.
C5_OutputFullyOverwritten ==
  \A f \in Factors :
    kpc[f] = "done" =>
      /\ idx[f] = 16
      /\ \A p \in Elems :
           /\ buffer_out[f][p] = Flat(tmp[f])[p]
           /\ buffer_out[f][p] # Stale

\* MatrixMultiply<1> has completed and MatrixMultiply<2>, started on a buffer
\* of stale elements, is at its last store.
C5_Witness ==
  /\ kpc[1] = "done"
  /\ buffer_out[1] = Flat(tmp[1])
  /\ kpc[2] = "store"
  /\ idx[2] = 15
  /\ buffer_out[2][15] = Stale
  /\ buffer_out[2][14] # Stale

\* C6: with A the identity and B[i,j] = i*j+1 as main builds them, the
\* factor-1 run and the factor-2 run both yield Result[i,j] = i*j+1 (Result = B),
\* main prints PASSED and returns 0.
C6_EndToEnd ==
  /\ cpc[1] = "returned" =>
       /\ \A i \in Rows, j \in Cols : matrix_output_no_col[i * 4 + j] = i * j + 1
       /\ matrix_output_no_col = matrix_b
  /\ cpc[2] = "returned" =>
       /\ \A i \in Rows, j \in Cols : matrix_output[i * 4 + j] = i * j + 1
       /\ matrix_output = matrix_b
  /\ pc \in {"report", "done"} => passed
  /\ pc = "done" =>
       /\ exit_code = <<0>>
       /\ console = <<"PASSED: The results are correct">>

C6_Witness ==
  /\ pc = "done"
  /\ exit_code = <<0>>
  /\ matrix_a[5] = 1
  /\ matrix_a[6] = 0
  /\ matrix_b[15] = 10
  /\ matrix_output[11] = 7
  /\ matrix_output_no_col[7] = 4

\* Both outputs hold i*j+1 at every one of the 16 positions.
AllMatch ==
  \A i \in Rows, j \in Cols :
    /\ matrix_output_no_col[i * 4 + j] = i * j + 1
    /\ matrix_output[i * 4 + j] = i * j + 1

\* C7: main returns 0 exactly when both outputs equal i*j+1 at all 16
\* positions, and returns -1 when some position of either output differs,
\* whatever the later positions hold.
C7_ExitCodeReflectsValidation ==
  pc = "done" =>
    /\ exit_code \in {<<0>>, <<-1>>}
    /\ exit_code = <<0>> <=> AllMatch
    /\ ~AllMatch => exit_code = <<-1>>

\* A mismatch at the first position followed by a match at the last one.
C7_Witness ==
  /\ pc = "done"
  /\ exit_code = <<-1>>
  /\ matrix_output[0] # 1
  /\ matrix_output[15] = 10
  /\ matrix_output_no_col[15] = 10

\* C8: once MatrixMultiply<k> has returned to main its kernel has completed
\* and all 16 elements of the caller's result vector hold the kernel's final
\* values; main's check nest runs only after both calls returned.
C8_ResultsCompleteOnReturn ==
  /\ cpc[1] = "returned" =>
       /\ kpc[1] = "done"
       /\ matrix_output_no_col = Flat(tmp[1])
       /\ \A p \in Elems : matrix_output_no_col[p] \notin {Uninit, Stale}
  /\ cpc[2] = "returned" =>
       /\ kpc[2] = "done"
       /\ matrix_output = Flat(tmp[2])
       /\ \A p \in Elems : matrix_output[p] \notin {Uninit, Stale}
  /\ pc \in {"check", "report", "done"} =>
       \A f \in Factors : cpc[f] = "returned"

C8_Witness ==
  /\ pc = "check"
  /\ mi = 2
  /\ mj = 1
  /\ cpc[1] = "returned"
  /\ cpc[2] = "returned"
  /\ matrix_output[9] = 3
  /\ matrix_output_no_col[9] = 3

\* C9: the two invocations use disjoint buffers: with the calls made in either
\* order and the kernels' steps interleaved, what a kernel has stored is its
\* own working result, and each call ends with the product in its own vector,
\* matrix_output_no_col for factor 1 and matrix_output for factor 2.
C9_InvocationsIndependent ==
  /\ \A f \in Factors :
       kpc[f] = "store" =>
         \A p \in Elems : p < idx[f] => buffer_out[f][p] = Flat(tmp[f])[p]
  /\ cpc[1] = "returned" =>
       \A i \in Rows, j \in Cols :
         matrix_output_no_col[i * 4 + j] = RefProduct(matrix_a, matrix_b, i, j)
  /\ cpc[2] = "returned" =>
       \A i \in Rows, j \in Cols :
         matrix_output[i * 4 + j] = RefProduct(matrix_a, matrix_b, i, j)

\* MatrixMultiply<2> has returned while the kernel of MatrixMultiply<1>,
\* submitted before that, is in the middle of its store nest.
C9_Witness ==
  /\ cpc[2] = "returned"
  /\ cpc[1] = "submitted"
  /\ kpc[1] = "store"
  /\ idx[1] = 7
  /\ matrix_a = Dense(1)
  /\ matrix_output # ZeroVec
  /\ matrix_output_no_col = ZeroVec

\* C10: in the load nest and in the store nest idx equals i*4+j at the access
\* made for pair (i, j), so it is within [0, 16) at every access; it is 16 once
\* a nest is left and is 0 again when the store nest starts.
C10_IdxIsLinearIndex ==
  \A f \in Factors :
    /\ kpc[f] \in {"load", "store"} =>
         /\ idx[f] = loop[f].i * 4 + loop[f].j
         /\ idx[f] \in 0 .. 15
    /\ kpc[f] \in {"mult", "done"} => idx[f] = 16

C10_Witness ==
  /\ kpc[1] = "done"
  /\ kpc[2] = "store"
  /\ idx[2] = 0
  /\ loop[2] = LoopStart
  /\ tmp[2][3][3] # Uninit

====
